---- MODULE Spec2Model ----
(***************************************************************************)
(* Model of the morning-brief classifier (src/app/classifier.py): one      *)
(* classify() pass over a list of stories.  The pass calls _llm_classify   *)
(* (batching, one service call per batch, title correlation), computes the *)
(* macro-threshold set and then walks the stories once, deciding section,  *)
(* triggers and special-situation tags and appending to capped buckets.    *)
(*                                                                         *)
(* Strings whose content matters (titles, summaries, keywords) are tuples  *)
(* of one-character strings, so that lower-casing and substring search are *)
(* computed as the code computes them.  Fields of a story that no modelled *)
(* statement reads (link, source, published) are left out.                 *)
(***************************************************************************)
EXTENDS Integers, Sequences, FiniteSets, TLC

(* ------------------------------ bounds -------------------------------- *)

\* longest story list handed to classify()
MaxStories == 2
\* largest per-section cap among the uniform cap configurations tried
MaxCap == 1
\* largest feed_count a story carries
MaxFeedCount == 3
\* classifier.py:116 sets _LLM_BATCH_SIZE = 50; the model scales it down so
\* that a run has several batches
LLM_BATCH_SIZE == 1
\* most feeds configured for fetch_all
MaxFeeds == 2
\* most entries a parsed feed holds
MaxEntries == 2

(* --------------------------- configuration ---------------------------- *)

SECTIONS == <<"headline", "global_news", "ai_tech", "macro_markets", "merger_news", "watchlist">>

SectionSet == {SECTIONS[k] : k \in 1..Len(SECTIONS)}

MACRO_HEADLINE_THRESHOLD == 3

SEC_HEADLINE_MAX == 2
SEC_GLOBAL_MAX == 4
SEC_AI_TECH_MAX == 3
SEC_MACRO_MAX == 3
SEC_MERGER_MAX == 3
SEC_WATCHLIST_MAX == 5

\* SECTION_LIMITS with the default environment
DefaultLimits ==
  [s \in SectionSet |->
     CASE s = "headline" -> SEC_HEADLINE_MAX
       [] s = "global_news" -> SEC_GLOBAL_MAX
       [] s = "ai_tech" -> SEC_AI_TECH_MAX
       [] s = "macro_markets" -> SEC_MACRO_MAX
       [] s = "merger_news" -> SEC_MERGER_MAX
       [] s = "watchlist" -> SEC_WATCHLIST_MAX]

\* the caps are read from the environment: the defaults, or every section
\* capped at the same c
LimitConfigs == {DefaultLimits} \cup {[s \in SectionSet |-> c] : c \in 0..MaxCap}

\* two of the configured keywords, in configuration order ("split", "IPO")
SPECIAL_SITUATIONS_KEYWORDS == << <<"s", "p", "l", "i", "t">>, <<"I", "P", "O">> >>

(* ------------------------------ strings ------------------------------- *)

LowerChar(c) ==
  CASE c = "I" -> "i"
    [] c = "P" -> "p"
    [] c = "O" -> "o"
    [] c = "S" -> "s"
    [] OTHER -> c

\* str.lower()
Lower(str) == [k \in 1..Len(str) |-> LowerChar(str[k])]

\* `needle in text` for strings
Contains(text, needle) ==
  \E k \in 0..(Len(text) - Len(needle)) : SubSeq(text, k + 1, k + Len(needle)) = needle

TitleIpo == <<"I", "P", "O">>
TitleOk == <<"o", "k">>
TitleUnknown == <<"n", "a">>
SummaryNone == <<>>
SummarySplit == <<"S", "p", "l", "i", "t">>

\* title and summary of the stories tried: a keyword in the title, no
\* keyword at all, a keyword in the summary only; two of them share a title
Contents ==
  { [title |-> TitleIpo, summary |-> SummaryNone],
    [title |-> TitleOk, summary |-> SummaryNone],
    [title |-> TitleOk, summary |-> SummarySplit] }

FeedCounts == (MACRO_HEADLINE_THRESHOLD - 1)..MaxFeedCount

\* the i-th story's fingerprint: fingerprints are unique within the list
Fingerprint(i) == <<"f", i>>

StoryLists(n) ==
  { [i \in 1..n |->
       [title |-> c[i].title, summary |-> c[i].summary,
        fingerprint |-> Fingerprint(i), feed_count |-> f[i]]] :
    c \in [1..n -> Contents], f \in [1..n -> FeedCounts] }

(* ------------------------ the external service ------------------------ *)

\* one element of the parsed JSON answer: an object with the fields the
\* code reads ("absent" = key missing; a missing title reads as ""), or a
\* value that is not an object
Obj(t, rel, sec) ==
  [obj |-> TRUE, title |-> t, relevant |-> rel, section |-> sec,
   reason |-> IF rel = "absent" THEN "absent" ELSE "r"]

NonObject == [obj |-> FALSE, title |-> <<>>, relevant |-> "absent", section |-> "absent", reason |-> "absent"]

VerdictShapes ==
  { <<"true", "headline">>, <<"true", "ai_tech">>, <<"true", "bogus">>,
    <<"false", "merger_news">>, <<"absent", "absent">> }

VerdictPool ==
  {Obj(t, sh[1], sh[2]) : t \in {TitleIpo, TitleOk}, sh \in VerdictShapes}
    \cup {Obj(TitleUnknown, "true", "ai_tech")}

\* what one _llm_classify_batch call can do: raise (network error, text
\* that is not JSON), or return the parsed JSON: a list of objects, a list
\* holding a non-object, or a value that cannot be iterated (a number,
\* null).  A JSON object or string at the top level is iterated by
\* extend() into its keys or characters, which is the list holding
\* non-objects.  The service answers a batch with at most one element;
\* "relevant" is a JSON boolean or missing.
Outcomes ==
  {[kind |-> "raise", results |-> <<>>], [kind |-> "scalar", results |-> <<>>]}
    \cup {[kind |-> "list", results |-> <<>>]}
    \cup {[kind |-> "list", results |-> <<e>>] : e \in VerdictPool \cup {NonObject}}

VARIABLES
  stories,         \* classify(stories): the input list
  client,          \* module global: TRUE iff OPENAI_API_KEY is set
  SECTION_LIMITS,  \* module global read from the environment
  pc,              \* position in classify()
  batches,         \* _llm_classify: the list of batches
  batch_idx,       \* _llm_classify: number of batches already handled
  responses,       \* what each handled batch call did, in call order
  all_results,     \* _llm_classify: verdicts collected so far
  llm_results,     \* classify: fingerprint -> verdict
  macro_fps,       \* classify: fingerprints over the threshold
  pos,             \* classify: number of stories already walked
  decision,        \* per story: the fields classify attached to it
  buckets,         \* classify: section -> list of stories (by position)
  sent,            \* the batches handed to _llm_classify_batch, in call order
  tpc,             \* position in trigger(); "none" when classify runs alone
  calls,           \* trigger: the pipeline steps called so far, in order
  feeds,           \* fetch_all: number of configured feeds
  feed_idx,        \* fetch_all: number of feeds already handled
  in_feed,         \* fetch_all: inside the entry loop of a parsed feed
  entries,         \* fetch_all: entries of the current feed not yet handled
  seen,            \* fetch_all: fingerprints seen so far
  carriers         \* per fingerprint: the feeds that carried a recent,
                   \* titled entry with it (kept to state the properties)

\* the variables of fetch_all and trigger
triggerVars == <<tpc, calls, feeds, feed_idx, in_feed, entries, seen, carriers>>

vars == <<stories, client, SECTION_LIMITS, pc, batches, batch_idx, responses,
          all_results, llm_results, macro_fps, pos, decision, buckets, sent,
          tpc, calls, feeds, feed_idx, in_feed, entries, seen, carriers>>

(* --------------------------- _llm_classify ---------------------------- *)

\* (variant: the whole list is sent as one batch)
SplitBatchesWhole(list) ==
  IF list = <<>> THEN <<>> ELSE <<list>>

\* stories[i : i + _LLM_BATCH_SIZE] for i in range(0, len(stories), _LLM_BATCH_SIZE)
SplitBatches(list) ==
  [b \in 1..((Len(list) + LLM_BATCH_SIZE - 1) \div LLM_BATCH_SIZE) |->
     SubSeq(list, (b - 1) * LLM_BATCH_SIZE + 1,
            IF b * LLM_BATCH_SIZE < Len(list) THEN b * LLM_BATCH_SIZE ELSE Len(list))]

\* (variant: a failed call also throws away what earlier batches gave)
ExtendResultsReset(all, outcome) ==
  IF outcome.kind = "list" THEN all \o outcome.results ELSE <<>>

\* the try block of the batch loop: all_results.extend(results) happens
\* only when the call returned and its value can be iterated; any
\* exception leaves all_results as it was and the loop goes on
ExtendResults(all, outcome) ==
  IF outcome.kind = "list" THEN all \o outcome.results ELSE all

\* (variant: the first story with a title keeps it)
RECURSIVE TitleToFpFirst(_)
TitleToFpFirst(list) ==
  IF list = <<>> THEN <<>>
  ELSE LET n == Len(list)
           rest == TitleToFpFirst(SubSeq(list, 1, n - 1))
           last == list[n]
       IN [t \in DOMAIN rest \cup {last.title} |->
             IF t \in DOMAIN rest THEN rest[t] ELSE last.fingerprint]

\* {s["title"]: s["fingerprint"] for s in stories}: a later story with the
\* same title overwrites the earlier one
RECURSIVE TitleToFp(_)
TitleToFp(list) ==
  IF list = <<>> THEN <<>>
  ELSE LET n == Len(list)
           rest == TitleToFp(SubSeq(list, 1, n - 1))
           last == list[n]
       IN [t \in DOMAIN rest \cup {last.title} |->
             IF t = last.title THEN last.fingerprint ELSE rest[t]]

\* (variant: the proposed section is stored unchecked)
NormalizeSectionMissing(sec) ==
  IF sec = "absent" THEN "global_news" ELSE sec

\* section = r.get("section", "global_news"); if section not in SECTIONS: ...
NormalizeSection(sec) ==
  IF sec \in SectionSet THEN sec ELSE "global_news"

\* the value stored for one verdict: the r.get(...) defaults applied
VerdictOf(r) ==
  [relevant |-> (r.relevant = "true"),
   section |-> NormalizeSection(r.section),
   reason |-> IF r.reason = "absent" THEN "" ELSE r.reason]

\* (variant: a verdict whose title matches no story ends the verdicts
\* collected before it)
RECURSIVE CorrelateAllMissClears(_, _)
CorrelateAllMissClears(results, t2f) ==
  IF results = <<>> THEN <<>>
  ELSE LET n == Len(results)
           out == CorrelateAllMissClears(SubSeq(results, 1, n - 1), t2f)
           r == results[n]
       IN IF r.title \notin DOMAIN t2f THEN <<>>
          ELSE LET fp == t2f[r.title]
               IN [f \in DOMAIN out \cup {fp} |->
                     IF f = fp THEN VerdictOf(r) ELSE out[f]]

\* (variant: the first verdict for a fingerprint is kept)
RECURSIVE CorrelateAllFirstWins(_, _)
CorrelateAllFirstWins(results, t2f) ==
  IF results = <<>> THEN <<>>
  ELSE LET n == Len(results)
           out == CorrelateAllFirstWins(SubSeq(results, 1, n - 1), t2f)
           r == results[n]
       IN IF r.title \notin DOMAIN t2f THEN out
          ELSE LET fp == t2f[r.title]
               IN [f \in DOMAIN out \cup {fp} |->
                     IF f \in DOMAIN out THEN out[f] ELSE VerdictOf(r)]

\* the correlation loop over all_results, for a list of objects
RECURSIVE CorrelateAll(_, _)
CorrelateAll(results, t2f) ==
  IF results = <<>> THEN <<>>
  ELSE LET n == Len(results)
           out == CorrelateAll(SubSeq(results, 1, n - 1), t2f)
           r == results[n]
       IN IF r.title \notin DOMAIN t2f THEN out
          ELSE LET fp == t2f[r.title]
               IN [f \in DOMAIN out \cup {fp} |->
                     IF f = fp THEN VerdictOf(r) ELSE out[f]]

\* r.get(...) on an element that is not an object raises AttributeError,
\* outside any try block
CorrelationRaises(results) ==
  \E k \in 1..Len(results) : ~results[k].obj

(* ------------------------- the other detectors ------------------------ *)

\* (variant: the threshold is taken one too low)
MacroTriggerOffByOne(list) ==
  {list[k].fingerprint : k \in {j \in 1..Len(list) : list[j].feed_count >= MACRO_HEADLINE_THRESHOLD - 1}}

\* _macro_trigger
MacroTrigger(list) ==
  {list[k].fingerprint : k \in {j \in 1..Len(list) : list[j].feed_count >= MACRO_HEADLINE_THRESHOLD}}

\* _detect_special_situations
DetectSpecialSituations(story) ==
  LET text == Lower(story.title \o <<" ">> \o story.summary)
      Hit(kw) == Contains(text, Lower(kw))
  IN SelectSeq(SPECIAL_SITUATIONS_KEYWORDS, Hit)

(* ------------------------- classify: one story ------------------------ *)

\* llm_info.get("relevant") with llm_info = llm_results.get(fp, {})
LlmRelevant(results, fp) ==
  fp \in DOMAIN results /\ results[fp].relevant

\* (variant: any verdict counts as the llm trigger, relevant or not)
TriggersAnyVerdict(results, macro, fp) ==
  (IF fp \in DOMAIN results THEN <<"llm">> ELSE <<>>)
    \o (IF fp \in macro THEN <<"macro">> ELSE <<>>)

\* the triggers list built for one story
Triggers(results, macro, fp) ==
  (IF LlmRelevant(results, fp) THEN <<"llm">> ELSE <<>>)
    \o (IF fp \in macro THEN <<"macro">> ELSE <<>>)

\* (variant: the default is the first section instead of global_news)
InitialSectionFirst(results, fp) ==
  IF fp \in DOMAIN results THEN results[fp].section ELSE SECTIONS[1]

\* (variant: the section of a verdict counts only when it is relevant)
InitialSectionRelevantOnly(results, fp) ==
  IF fp \in DOMAIN results /\ results[fp].relevant THEN results[fp].section ELSE "global_news"

\* section = llm_info.get("section", "global_news")
InitialSection(results, fp) ==
  IF fp \in DOMAIN results THEN results[fp].section ELSE "global_news"

\* (variant: the override also rewrites headline stories)
OverrideSectionNoHeadline(section, specials) ==
  IF specials # <<>> /\ section # "merger_news"
  THEN "merger_news" ELSE section

\* the keyword override
OverrideSection(section, specials) ==
  IF specials # <<>> /\ section \notin {"headline", "merger_news"}
  THEN "merger_news" ELSE section

\* llm_info.get("reason", "")
ReasonOf(results, fp) ==
  IF fp \in DOMAIN results THEN results[fp].reason ELSE ""

\* (variant: the cap test is off by one)
HasRoomOffByOne(bucket, limit) == Len(bucket) <= limit

\* len(buckets[section]) < SECTION_LIMITS.get(section, 5)
HasRoom(bucket, limit) == Len(bucket) < limit

\* (variant: the newest story goes to the front)
PrependStory(bucket, i) == <<i>> \o bucket

\* (variant: the story is appended twice)
AppendStoryTwice(bucket, i) == Append(Append(bucket, i), i)

\* buckets[section].append(s)
AppendStory(bucket, i) == Append(bucket, i)

\* (variant: a story that finds its section full goes to the first other
\* section that has room)
PlaceStorySpill(bks, section, i, limits) ==
  IF HasRoom(bks[section], limits[section])
  THEN [bks EXCEPT ![section] = AppendStory(@, i)]
  ELSE LET open == {k \in 1..Len(SECTIONS) : HasRoom(bks[SECTIONS[k]], limits[SECTIONS[k]])}
       IN IF open = {} THEN bks
          ELSE LET first == SECTIONS[CHOOSE k \in open : \A m \in open : k <= m]
               IN [bks EXCEPT ![first] = AppendStory(@, i)]

\* if len(buckets[section]) < SECTION_LIMITS.get(section, 5):
\*     buckets[section].append(s)
PlaceStory(bks, section, i, limits) ==
  IF HasRoom(bks[section], limits[section])
  THEN [bks EXCEPT ![section] = AppendStory(@, i)]
  ELSE bks

Undecided ==
  [decided |-> FALSE, section |-> "absent", triggered_by |-> <<>>,
   special_situations |-> <<>>, reason |-> "absent"]

(* ------------------------------- Init --------------------------------- *)

Init ==
  /\ \E n \in 0..MaxStories : stories \in StoryLists(n)
  /\ client \in BOOLEAN
  /\ SECTION_LIMITS \in LimitConfigs
  /\ pc = "llm_classify"
  /\ batches = <<>>
  /\ batch_idx = 0
  /\ responses = <<>>
  /\ all_results = <<>>
  /\ llm_results = <<>>
  /\ macro_fps = {}
  /\ pos = 0
  /\ decision = [k \in 1..Len(stories) |-> Undecided]
  /\ buckets = [s \in SectionSet |-> <<>>]
  /\ sent = <<>>
  /\ tpc = "none"
  /\ calls = <<>>
  /\ feeds = 0
  /\ feed_idx = 0
  /\ in_feed = FALSE
  /\ entries = <<>>
  /\ seen = {}
  /\ carriers = <<>>

(* ------------------------------ actions ------------------------------- *)

\* _llm_classify without a client: return {} at once
LlmNoClient ==
  /\ pc = "llm_classify"
  /\ ~client
  /\ llm_results' = <<>>
  /\ pc' = "llm_returned"
  /\ UNCHANGED <<stories, client, SECTION_LIMITS, batches, batch_idx, responses,
                 all_results, macro_fps, pos, decision, buckets>>
  /\ UNCHANGED <<sent, triggerVars>>

\* _llm_classify with a client: split into batches
LlmSplit ==
  /\ pc = "llm_classify"
  /\ client
  /\ batches' = SplitBatches(stories)
  /\ batch_idx' = 0
  /\ all_results' = <<>>
  /\ pc' = "batch"
  /\ UNCHANGED <<stories, client, SECTION_LIMITS, responses, llm_results,
                 macro_fps, pos, decision, buckets>>
  /\ sent' = <<>>
  /\ UNCHANGED triggerVars

\* one iteration of the batch loop: the call for the next batch and what
\* the try/except around it keeps of it
BatchCall ==
  /\ pc = "batch"
  /\ batch_idx < Len(batches)
  /\ \E outcome \in Outcomes :
       /\ responses' = Append(responses, outcome)
       /\ all_results' = ExtendResults(all_results, outcome)
  /\ batch_idx' = batch_idx + 1
  /\ UNCHANGED <<stories, client, SECTION_LIMITS, pc, batches, llm_results,
                 macro_fps, pos, decision, buckets>>
  /\ sent' = Append(sent, batches[batch_idx + 1])
  /\ UNCHANGED triggerVars

\* after the loop: correlate by title and return to classify; or raise out
\* of _llm_classify and, there being no handler in classify, out of classify
Correlate ==
  /\ pc = "batch"
  /\ batch_idx = Len(batches)
  /\ IF CorrelationRaises(all_results)
     THEN /\ pc' = "raised"
          /\ UNCHANGED llm_results
     ELSE /\ llm_results' = CorrelateAll(all_results, TitleToFp(stories))
          /\ pc' = "llm_returned"
  /\ UNCHANGED <<stories, client, SECTION_LIMITS, batches, batch_idx, responses,
                 all_results, macro_fps, pos, decision, buckets>>
  /\ UNCHANGED <<sent, triggerVars>>

\* classify after _llm_classify has returned: the macro set and the empty
\* buckets; the locals of _llm_classify are gone
StartWalk ==
  /\ pc = "llm_returned"
  /\ macro_fps' = MacroTrigger(stories)
  /\ buckets' = [s \in SectionSet |-> <<>>]
  /\ batches' = <<>>
  /\ batch_idx' = 0
  /\ responses' = <<>>
  /\ all_results' = <<>>
  /\ pc' = "walk"
  /\ UNCHANGED <<stories, client, SECTION_LIMITS, llm_results, pos, decision>>
  /\ sent' = <<>>
  /\ UNCHANGED triggerVars

\* one iteration of `for s in stories`
Decide ==
  /\ pc = "walk"
  /\ pos < Len(stories)
  /\ LET s == stories[pos + 1]
         fp == s.fingerprint
         triggers == Triggers(llm_results, macro_fps, fp)
         specials == DetectSpecialSituations(s)
         section == OverrideSection(InitialSection(llm_results, fp), specials)
     IN IF triggers = <<>>
        THEN UNCHANGED <<decision, buckets, pc>>
        ELSE /\ decision' = [decision EXCEPT ![pos + 1] =
                   [decided |-> TRUE, section |-> section, triggered_by |-> triggers,
                    special_situations |-> specials, reason |-> ReasonOf(llm_results, fp)]]
             /\ IF section \notin DOMAIN buckets
                THEN /\ pc' = "raised"
                     /\ UNCHANGED buckets
                ELSE /\ pc' = pc
                     /\ buckets' = PlaceStory(buckets, section, pos + 1, SECTION_LIMITS)
  /\ pos' = pos + 1
  /\ UNCHANGED <<stories, client, SECTION_LIMITS, batches, batch_idx, responses,
                 all_results, llm_results, macro_fps>>
  /\ UNCHANGED <<sent, triggerVars>>

\* the loop is over: classify returns buckets
Return ==
  /\ pc = "walk"
  /\ pos = Len(stories)
  /\ pc' = "done"
  /\ UNCHANGED <<stories, client, SECTION_LIMITS, batches, batch_idx, responses,
                 all_results, llm_results, macro_fps, pos, decision, buckets>>
  /\ UNCHANGED <<sent, triggerVars>>

Next == LlmNoClient \/ LlmSplit \/ BatchCall \/ Correlate \/ StartWalk \/ Decide \/ Return

Spec == Init /\ [][Next]_vars

TypeOK ==
  /\ pc \in {"llm_classify", "batch", "llm_returned", "walk", "raised", "done"}
  /\ pos \in 0..Len(stories)
  /\ batch_idx \in 0..Len(batches)

(* ----------------------------- fetch_all ------------------------------ *)

\* str.strip(), for blanks
RECURSIVE Strip(_)
Strip(str) ==
  IF str = <<>> THEN str
  ELSE IF Head(str) = " " THEN Strip(Tail(str))
  ELSE IF str[Len(str)] = " " THEN Strip(SubSeq(str, 1, Len(str) - 1))
  ELSE str

\* _fingerprint: the MD5 digest of the stripped, lower-cased title; the
\* digest is written as its argument, two titles colliding under MD5 is
\* not modelled
FingerprintOf(title) == <<"md5", Lower(Strip(title))>>

TitleOkCased == <<" ", "O", "k">>
TitleBlank == <<" ">>

\* the entries a parsed feed may hold: recent ones with a title, one whose
\* title differs from another's in case and blanks only, one older than
\* the cutoff, one with a blank title, and one whose handling raises (its
\* title is not a string)
EntryPool ==
  { [title |-> TitleOk, recent |-> TRUE, bad |-> FALSE],
    [title |-> TitleOkCased, recent |-> TRUE, bad |-> FALSE],
    [title |-> TitleIpo, recent |-> TRUE, bad |-> FALSE],
    [title |-> TitleOk, recent |-> FALSE, bad |-> FALSE],
    [title |-> TitleBlank, recent |-> TRUE, bad |-> FALSE],
    [title |-> TitleBlank, recent |-> TRUE, bad |-> TRUE] }

EntryLists == UNION {[1..n -> EntryPool] : n \in 0..MaxEntries}

\* (variant: the fingerprint is not remembered)
SeenAfterForgets(set, fp) == set

\* seen.add(fp)
SeenAfter(set, fp) == set \cup {fp}

\* for s in stories: if s["fingerprint"] == fp: s["feed_count"] += 1; break
BumpFeedCount(list, fp) ==
  LET hits == {k \in 1..Len(list) : list[k].fingerprint = fp}
  IN IF hits = {} THEN list
     ELSE LET first == CHOOSE k \in hits : \A m \in hits : k <= m
          IN [list EXCEPT ![first].feed_count = @ + 1]

\* the dict appended for a new entry
NewStory(title, fp) ==
  [title |-> title, summary |-> SummaryNone, fingerprint |-> fp, feed_count |-> 1]

\* the entry counts for the feed being handled
Carried(car, fp, feed) ==
  [f \in DOMAIN car \cup {fp} |->
     IF f = fp THEN (IF fp \in DOMAIN car THEN car[fp] ELSE {}) \cup {feed} ELSE car[f]]

\* trigger() starts and calls fetch_all()
TriggerFetch ==
  /\ tpc = "start"
  /\ tpc' = "fetch_all"
  /\ calls' = Append(calls, "fetch_all")
  /\ stories' = <<>>
  /\ decision' = <<>>
  /\ seen' = {}
  /\ feed_idx' = 0
  /\ UNCHANGED <<client, SECTION_LIMITS, pc, batches, batch_idx, responses, all_results,
                 llm_results, macro_fps, pos, buckets, sent, feeds, in_feed, entries,
                 carriers>>

\* feedparser.parse(url) and the lines before the entry loop: they raise,
\* which the except clause of the feed logs, or give the entries
FetchParse ==
  /\ tpc = "fetch_all"
  /\ ~in_feed
  /\ feed_idx < feeds
  /\ \/ /\ feed_idx' = feed_idx + 1
        /\ UNCHANGED <<in_feed, entries>>
     \/ /\ entries' \in EntryLists
        /\ in_feed' = TRUE
        /\ UNCHANGED feed_idx
  /\ UNCHANGED <<stories, client, SECTION_LIMITS, pc, batches, batch_idx, responses,
                 all_results, llm_results, macro_fps, pos, decision, buckets, sent,
                 tpc, calls, feeds, seen, carriers>>

\* one iteration of `for entry in parsed.entries`
FetchEntry ==
  /\ tpc = "fetch_all"
  /\ in_feed
  /\ entries # <<>>
  /\ LET e == Head(entries)
         title == Strip(e.title)
         fp == FingerprintOf(title)
     IN IF ~e.recent
        THEN /\ entries' = Tail(entries)
             /\ UNCHANGED <<stories, decision, seen, carriers, in_feed, feed_idx>>
        ELSE IF e.bad
        THEN /\ entries' = <<>>
             /\ in_feed' = FALSE
             /\ feed_idx' = feed_idx + 1
             /\ UNCHANGED <<stories, decision, seen, carriers>>
        ELSE IF title = <<>>
        THEN /\ entries' = Tail(entries)
             /\ UNCHANGED <<stories, decision, seen, carriers, in_feed, feed_idx>>
        ELSE /\ entries' = Tail(entries)
             /\ carriers' = Carried(carriers, fp, feed_idx + 1)
             /\ UNCHANGED <<in_feed, feed_idx>>
             /\ IF fp \in seen
                THEN /\ stories' = BumpFeedCount(stories, fp)
                     /\ UNCHANGED <<seen, decision>>
                ELSE /\ seen' = SeenAfter(seen, fp)
                     /\ stories' = Append(stories, NewStory(title, fp))
                     /\ decision' = Append(decision, Undecided)
  /\ UNCHANGED <<client, SECTION_LIMITS, pc, batches, batch_idx, responses, all_results,
                 llm_results, macro_fps, pos, buckets, sent, tpc, calls, feeds>>

\* the entry loop of a feed is over
FetchFeedEnd ==
  /\ tpc = "fetch_all"
  /\ in_feed
  /\ entries = <<>>
  /\ in_feed' = FALSE
  /\ feed_idx' = feed_idx + 1
  /\ UNCHANGED <<stories, client, SECTION_LIMITS, pc, batches, batch_idx, responses,
                 all_results, llm_results, macro_fps, pos, decision, buckets, sent,
                 tpc, calls, feeds, entries, seen, carriers>>

\* fetch_all returns its list to trigger()
FetchReturn ==
  /\ tpc = "fetch_all"
  /\ ~in_feed
  /\ feed_idx = feeds
  /\ tpc' = "fetched"
  /\ UNCHANGED <<stories, client, SECTION_LIMITS, pc, batches, batch_idx, responses,
                 all_results, llm_results, macro_fps, pos, decision, buckets, sent,
                 calls, feeds, feed_idx, in_feed, entries, seen, carriers>>

(* ------------------------------ trigger ------------------------------- *)

\* (variant: the sections are counted instead of the stories in them)
TotalSelectedSections(bks) == Cardinality(DOMAIN bks)

\* sum(len(v) for v in buckets.values())
TotalSelected(bks) ==
  LET RECURSIVE Sum(_)
      Sum(k) == IF k = 0 THEN 0 ELSE Sum(k - 1) + Len(bks[SECTIONS[k]])
  IN Sum(Len(SECTIONS))

\* if not stories: raise HTTPException(status_code=502, ...)
TriggerNoStories ==
  /\ tpc = "fetched"
  /\ stories = <<>>
  /\ tpc' = "http_502"
  /\ UNCHANGED <<stories, client, SECTION_LIMITS, pc, batches, batch_idx, responses,
                 all_results, llm_results, macro_fps, pos, decision, buckets, sent,
                 calls, feeds, feed_idx, in_feed, entries, seen, carriers>>

\* buckets = classify(stories): the call; the locals of fetch_all are gone
TriggerClassify ==
  /\ tpc = "fetched"
  /\ stories # <<>>
  /\ tpc' = "classify"
  /\ calls' = Append(calls, "classify")
  /\ pc' = "llm_classify"
  /\ seen' = {}
  /\ carriers' = <<>>
  /\ UNCHANGED <<stories, client, SECTION_LIMITS, batches, batch_idx, responses,
                 all_results, llm_results, macro_fps, pos, decision, buckets, sent,
                 feeds, feed_idx, in_feed, entries>>

\* if total_selected == 0: raise HTTPException(status_code=204, ...)
TriggerNoneSelected ==
  /\ tpc = "classify"
  /\ pc = "done"
  /\ TotalSelected(buckets) = 0
  /\ tpc' = "http_204"
  /\ UNCHANGED <<stories, client, SECTION_LIMITS, pc, batches, batch_idx, responses,
                 all_results, llm_results, macro_fps, pos, decision, buckets, sent,
                 calls, feeds, feed_idx, in_feed, entries, seen, carriers>>

\* subject, html = build_digest(buckets); the call returns or raises
TriggerBuildDigest ==
  /\ tpc = "classify"
  /\ pc = "done"
  /\ TotalSelected(buckets) # 0
  /\ calls' = Append(calls, "build_digest")
  /\ tpc' \in {"built", "error"}
  /\ UNCHANGED <<stories, client, SECTION_LIMITS, pc, batches, batch_idx, responses,
                 all_results, llm_results, macro_fps, pos, decision, buckets, sent,
                 feeds, feed_idx, in_feed, entries, seen, carriers>>

\* result = send_email(subject, html); the call returns, and trigger()
\* with it, or raises
TriggerSendEmail ==
  /\ tpc = "built"
  /\ calls' = Append(calls, "send_email")
  /\ tpc' \in {"returned", "error"}
  /\ UNCHANGED <<stories, client, SECTION_LIMITS, pc, batches, batch_idx, responses,
                 all_results, llm_results, macro_fps, pos, decision, buckets, sent,
                 feeds, feed_idx, in_feed, entries, seen, carriers>>

InitPipeline ==
  /\ stories = <<>>
  /\ client \in BOOLEAN
  /\ SECTION_LIMITS \in LimitConfigs
  /\ pc = "idle"
  /\ batches = <<>>
  /\ batch_idx = 0
  /\ responses = <<>>
  /\ all_results = <<>>
  /\ llm_results = <<>>
  /\ macro_fps = {}
  /\ pos = 0
  /\ decision = <<>>
  /\ buckets = [s \in SectionSet |-> <<>>]
  /\ sent = <<>>
  /\ tpc = "start"
  /\ calls = <<>>
  /\ feeds \in 0..MaxFeeds
  /\ feed_idx = 0
  /\ in_feed = FALSE
  /\ entries = <<>>
  /\ seen = {}
  /\ carriers = <<>>

NextPipeline ==
  \/ TriggerFetch \/ FetchParse \/ FetchEntry \/ FetchFeedEnd \/ FetchReturn
  \/ TriggerNoStories \/ TriggerClassify
  \/ LlmNoClient \/ LlmSplit \/ BatchCall \/ Correlate \/ StartWalk \/ Decide \/ Return
  \/ TriggerNoneSelected \/ TriggerBuildDigest \/ TriggerSendEmail

Pipeline == InitPipeline /\ [][NextPipeline]_vars

(* ---------------------- vocabulary of the properties ------------------ *)

Positions == 1..Len(stories)

FpOf(i) == stories[i].fingerprint

\* story i sits in some bucket
InBuckets(i) ==
  \E s \in DOMAIN buckets : \E k \in 1..Len(buckets[s]) : buckets[s][k] = i

\* the verdict map holds a verdict with relevant = true for story i
HasRelevantVerdict(i) ==
  FpOf(i) \in DOMAIN llm_results /\ llm_results[FpOf(i)].relevant = TRUE

\* the story was carried by at least N feeds
OverThreshold(i) == stories[i].feed_count >= MACRO_HEADLINE_THRESHOLD

Fired(i) == HasRelevantVerdict(i) \/ OverThreshold(i)

Member(x, seq) == \E k \in 1..Len(seq) : seq[k] = x

IsPrefix(a, b) == Len(a) <= Len(b) /\ SubSeq(b, 1, Len(a)) = a

\* the category of story i before the keyword override
PreOverride(i) == InitialSection(llm_results, FpOf(i))

Tags(i) == DetectSpecialSituations(stories[i])

(* -------------------------------- C1 ---------------------------------- *)

\* C1 as stated: when classify() has returned, a story is in some bucket
\* if and only if it has a relevant verdict or its feed_count reaches the
\* threshold.
C1_InclusionIff ==
  pc = "done" =>
    \A i \in Positions : InBuckets(i) <=> Fired(i)

\* the stories before i that fired and were decided for the same section
EarlierSameSection(i) ==
  {j \in 1..(i - 1) : Fired(j) /\ decision[j].section = decision[i].section}

\* C1 amended: when classify() has returned, a story is in some bucket if
\* and only if it has a relevant verdict or reaches the threshold, and
\* fewer stories than the cap of its section fired before it and were
\* decided for that section.
C1_InclusionUnderCaps ==
  pc = "done" =>
    \A i \in Positions :
      InBuckets(i) <=>
        /\ Fired(i)
        /\ Cardinality(EarlierSameSection(i)) < SECTION_LIMITS[decision[i].section]

\* one story was admitted and another, although it fired, found its
\* bucket full
C1_Witness ==
  /\ pc = "done"
  /\ \E i, j \in Positions :
       /\ InBuckets(i) /\ Fired(i)
       /\ Fired(j) /\ ~InBuckets(j)

(* -------------------------------- C2 ---------------------------------- *)

\* C2: in every state during and after the pass, no bucket is longer than
\* the cap of its section.
C2_CapEnforcement ==
  \A s \in DOMAIN buckets : Len(buckets[s]) <= SECTION_LIMITS[s]

\* a bucket is full and a story decided for it was left out
C2_Witness ==
  \E i \in Positions :
    /\ decision[i].decided
    /\ ~InBuckets(i)
    /\ SECTION_LIMITS[decision[i].section] > 0
    /\ Len(buckets[decision[i].section]) = SECTION_LIMITS[decision[i].section]

(* -------------------------------- C3 ---------------------------------- *)

\* C3: for every decided story, if the keyword detector finds a keyword and
\* the category before the override is neither headline nor merger_news,
\* the final category is merger_news; if the category before the override
\* is headline or merger_news, the final category is that category.
C3_KeywordOverride ==
  \A i \in Positions :
    decision[i].decided =>
      /\ (Tags(i) # <<>> /\ PreOverride(i) \notin {"headline", "merger_news"})
            => decision[i].section = "merger_news"
      /\ PreOverride(i) \in {"headline", "merger_news"}
            => decision[i].section = PreOverride(i)

C3_Witness ==
  \E i, j \in Positions :
    /\ decision[i].decided /\ Tags(i) # <<>>
    /\ PreOverride(i) = "ai_tech" /\ decision[i].section = "merger_news"
    /\ decision[j].decided /\ Tags(j) # <<>>
    /\ PreOverride(j) = "headline" /\ decision[j].section = "headline"

(* -------------------------------- C4 ---------------------------------- *)

\* a batch call failed: it raised, or its value could not be iterated
Failed(outcome) == outcome.kind # "list"

\* what the batches that did not fail returned, in batch order
RECURSIVE ResultsOfOthers(_)
ResultsOfOthers(outs) ==
  IF outs = <<>> THEN <<>>
  ELSE LET n == Len(outs)
       IN ResultsOfOthers(SubSeq(outs, 1, n - 1))
            \o (IF Failed(outs[n]) THEN <<>> ELSE outs[n].results)

\* C4: during the batch loop the collected results are exactly those of
\* the batches that did not fail (a failing batch adds nothing and removes
\* nothing); and when _llm_classify returns, every batch has been sent and
\* the returned verdict map is the correlation of the results of the
\* batches that did not fail.
C4_BatchIsolation ==
  /\ pc = "batch" =>
       /\ Len(responses) = batch_idx
       /\ all_results = ResultsOfOthers(responses)
  /\ (client /\ pc = "llm_returned") =>
       /\ Len(responses) = Len(SplitBatches(stories))
       /\ llm_results = CorrelateAll(ResultsOfOthers(responses), TitleToFp(stories))

\* a batch failed, another batch returned a verdict, and the
\* verdict map holds a verdict
C4_Witness ==
  /\ client
  /\ pc = "llm_returned"
  /\ llm_results # <<>>
  /\ \E k \in 1..Len(responses) : Failed(responses[k])
  /\ \E k \in 1..Len(responses) : ~Failed(responses[k]) /\ responses[k].results # <<>>

(* -------------------------------- C5 ---------------------------------- *)

\* C5: no exception escapes _llm_classify, whatever the batch calls did.
C5_NoExceptionEscapes ==
  pc # "raised"

(* -------------------------------- C6 ---------------------------------- *)

\* the last collected result that correlates to fingerprint fp
LastResultFor(fp) ==
  LET t2f == TitleToFp(stories)
      ks == {k \in 1..Len(all_results) :
               all_results[k].title \in DOMAIN t2f /\ t2f[all_results[k].title] = fp}
  IN all_results[CHOOSE k \in ks : \A m \in ks : m <= k]

\* C6: every stored verdict has one of the six sections, namely the
\* proposed one if it is one of the six and global_news otherwise; the
\* section of every decided story is one of the six; and a story sits only
\* in the bucket of its own section, one of the six.
C6_CategoryClosure ==
  /\ \A fp \in DOMAIN llm_results :
       /\ llm_results[fp].section \in SectionSet
       /\ pc = "llm_returned" =>
            llm_results[fp].section =
              IF LastResultFor(fp).section \in SectionSet
              THEN LastResultFor(fp).section ELSE "global_news"
  /\ \A i \in Positions : decision[i].decided => decision[i].section \in SectionSet
  /\ \A s \in DOMAIN buckets :
       buckets[s] # <<>> =>
         /\ s \in SectionSet
         /\ \A k \in 1..Len(buckets[s]) : decision[buckets[s][k]].section = s

\* a story sits in global_news on a relevant verdict whose section is
\* global_news: the service proposes no such verdict, so the section it
\* proposed was an unknown one
C6_Witness ==
  \E i \in Positions :
    /\ FpOf(i) \in DOMAIN llm_results
    /\ llm_results[FpOf(i)] = [relevant |-> TRUE, section |-> "global_news", reason |-> "r"]
    /\ ~OverThreshold(i)
    /\ Tags(i) = <<>>
    /\ Member(i, buckets["global_news"])

(* -------------------------------- C7 ---------------------------------- *)

\* C7: a decided story without a verdict was triggered by repetition only
\* and is assigned global_news, or merger_news when the keyword detector
\* finds a keyword.
C7_CategoryDefault ==
  \A i \in Positions :
    (decision[i].decided /\ FpOf(i) \notin DOMAIN llm_results) =>
      /\ decision[i].triggered_by = <<"macro">>
      /\ decision[i].section = IF Tags(i) # <<>> THEN "merger_news" ELSE "global_news"

C7_Witness ==
  \E i, j \in Positions :
    /\ FpOf(i) \notin DOMAIN llm_results /\ Member(i, buckets["global_news"])
    /\ FpOf(j) \notin DOMAIN llm_results /\ Member(j, buckets["merger_news"])

(* -------------------------------- C8 ---------------------------------- *)

\* C8: every story in a bucket carries a non-empty triggered_by that holds
\* llm exactly when its verdict is relevant and macro exactly when its
\* fingerprint is in the threshold set; a walked story for which neither
\* fired is undecided and in no bucket.
C8_TriggeredBy ==
  /\ \A i \in Positions :
       InBuckets(i) =>
         /\ decision[i].triggered_by # <<>>
         /\ Member("llm", decision[i].triggered_by) <=> HasRelevantVerdict(i)
         /\ Member("macro", decision[i].triggered_by) <=> FpOf(i) \in macro_fps
         /\ FpOf(i) \in macro_fps <=> OverThreshold(i)
  /\ \A i \in 1..pos :
       ~Fired(i) => ~InBuckets(i) /\ ~decision[i].decided

\* one story fired on both signals; another matches a keyword, fired on
\* neither and was walked past
C8_Witness ==
  \E i, j \in Positions :
    /\ InBuckets(i) /\ decision[i].triggered_by = <<"llm", "macro">>
    /\ j <= pos /\ Tags(j) # <<>> /\ ~Fired(j) /\ ~InBuckets(j)
    /\ FpOf(j) \in DOMAIN llm_results

(* -------------------------------- C9 ---------------------------------- *)

\* C9: every step leaves each bucket a prefix of what it becomes, and in
\* every state each bucket lists its stories in input order.
C9_AppendOnly ==
  /\ [][\A s \in DOMAIN buckets : IsPrefix(buckets[s], buckets'[s])]_vars
  /\ [](\A s \in DOMAIN buckets :
          \A k, m \in 1..Len(buckets[s]) : k < m => buckets[s][k] < buckets[s][m])

C9_Witness ==
  \E s \in DOMAIN buckets : Len(buckets[s]) >= 2

(* -------------------------------- C10 --------------------------------- *)

\* C10 as stated: without a client no batch is sent, the verdict map is
\* empty, and every story in a bucket reaches the threshold, is triggered
\* by repetition only and has category global_news.
C10_DegenerateGlobalOnly ==
  ~client =>
    /\ responses = <<>> /\ llm_results = <<>>
    /\ \A i \in Positions :
         InBuckets(i) =>
           /\ OverThreshold(i)
           /\ decision[i].triggered_by = <<"macro">>
           /\ decision[i].section = "global_news"

\* C10 amended: without a client no batch is sent, the verdict map is
\* empty, and every story in a bucket reaches the threshold, is triggered
\* by repetition only and has category global_news, or merger_news when
\* the keyword detector finds a keyword in it.
C10_Degenerate ==
  ~client =>
    /\ responses = <<>> /\ llm_results = <<>>
    /\ \A i \in Positions :
         InBuckets(i) =>
           /\ OverThreshold(i)
           /\ decision[i].triggered_by = <<"macro">>
           /\ decision[i].section = IF Tags(i) # <<>> THEN "merger_news" ELSE "global_news"
           /\ Member(i, buckets[decision[i].section])

\* without a client, one story under the threshold was walked past and one
\* at the threshold was admitted
C10_Witness ==
  /\ ~client
  /\ pc = "done"
  /\ \E i, j \in Positions :
       /\ ~OverThreshold(i) /\ ~InBuckets(i)
       /\ OverThreshold(j) /\ Member(j, buckets["global_news"])

(* -------------------------------- C11 --------------------------------- *)

\* the title of result r is the title of some story of the run
KnownTitle(r) == \E i \in Positions : stories[i].title = r.title

\* C11: the returned verdict map is the one the collected results give
\* with every result of unknown title left out, and each of its entries
\* belongs to a story whose title some result echoes.
C11_CorrelationMiss ==
  (client /\ pc = "llm_returned") =>
    /\ llm_results = CorrelateAll(SelectSeq(all_results, KnownTitle), TitleToFp(stories))
    /\ \A fp \in DOMAIN llm_results :
         \E i \in Positions :
           /\ FpOf(i) = fp
           /\ \E k \in 1..Len(all_results) : all_results[k].title = stories[i].title

\* a verdict of known title was collected, then one of unknown title, and
\* the map holds the first
C11_Witness ==
  /\ client
  /\ pc = "llm_returned"
  /\ Len(all_results) = 2
  /\ KnownTitle(all_results[1])
  /\ ~KnownTitle(all_results[2])
  /\ Cardinality(DOMAIN llm_results) = 1

(* -------------------------------- C12 --------------------------------- *)

\* some collected result echoes the title of story i
Echoed(i) == \E k \in 1..Len(all_results) : all_results[k].title = stories[i].title

\* C12 as stated: when two stories share a title and a result echoes it,
\* the verdict map holds the same verdict under both fingerprints.
C12_SharedTitleBoth ==
  (client /\ pc = "llm_returned") =>
    \A i, j \in Positions :
      (i # j /\ stories[i].title = stories[j].title /\ Echoed(i)) =>
        /\ FpOf(i) \in DOMAIN llm_results
        /\ FpOf(j) \in DOMAIN llm_results
        /\ llm_results[FpOf(i)] = llm_results[FpOf(j)]

\* C12 amended: when stories share a title and a result echoes it, the
\* verdict map holds the verdict under the fingerprint of the last of them
\* in list order and holds no verdict under the fingerprint of an earlier
\* one.
C12_SharedTitleLast ==
  (client /\ pc = "llm_returned") =>
    \A i, j \in Positions :
      (i < j /\ stories[i].title = stories[j].title) =>
        /\ FpOf(i) \notin DOMAIN llm_results
        /\ (Echoed(j) /\ \A m \in Positions : stories[m].title = stories[j].title => m <= j)
             => FpOf(j) \in DOMAIN llm_results

C12_Witness ==
  /\ client
  /\ pc = "llm_returned"
  /\ \E i, j \in Positions :
       /\ i < j /\ stories[i].title = stories[j].title /\ Echoed(j)
       /\ FpOf(j) \in DOMAIN llm_results
       /\ FpOf(i) \notin DOMAIN llm_results

(* -------------------------------- C15 --------------------------------- *)

\* the section the verdict map proposes for story i, global_news without
\* a verdict
ProposedSection(i) ==
  IF FpOf(i) \in DOMAIN llm_results THEN llm_results[FpOf(i)].section ELSE "global_news"

\* the category the decision rules give story i
FinalCategory(i) ==
  IF Tags(i) # <<>> /\ ProposedSection(i) \notin {"headline", "merger_news"}
  THEN "merger_news" ELSE ProposedSection(i)

\* C15: the category of a decided story is the one the keyword override
\* makes of its verdict's section whenever the verdict map holds a verdict
\* for it, relevant or not, and of global_news only when it holds none.
C15_VerdictSection ==
  \A i \in Positions :
    decision[i].decided => decision[i].section = FinalCategory(i)

\* a story admitted by repetition only, with a verdict that is not
\* relevant, takes the section of that verdict
C15_Witness ==
  \E i \in Positions :
    /\ decision[i].decided
    /\ decision[i].triggered_by = <<"macro">>
    /\ Tags(i) = <<>>
    /\ FpOf(i) \in DOMAIN llm_results
    /\ ~llm_results[FpOf(i)].relevant
    /\ decision[i].section = "merger_news"

(* -------------------------------- C16 --------------------------------- *)

\* C16: a step that walks a story which fired and whose category's bucket
\* is at its cap attaches the decision fields to the story and changes no
\* bucket; and a story that was walked without entering a bucket never
\* enters one later.
C16_Overflow ==
  /\ [][(/\ pc = "walk"
         /\ pos < Len(stories)
         /\ Fired(pos + 1)
         /\ Len(buckets[FinalCategory(pos + 1)]) >= SECTION_LIMITS[FinalCategory(pos + 1)])
        => (/\ buckets' = buckets
            /\ decision'[pos + 1].decided
            /\ decision'[pos + 1].section = FinalCategory(pos + 1)
            /\ decision'[pos + 1].triggered_by # <<>>
            /\ decision'[pos + 1].special_situations = Tags(pos + 1)
            /\ decision'[pos + 1].reason # "absent")]_vars
  /\ [][\A i \in 1..pos : ~InBuckets(i) => ~InBuckets(i)']_vars

\* the pass is over and a decided story is in no bucket
C16_Witness ==
  /\ pc = "done"
  /\ \E i \in Positions :
       /\ decision[i].decided
       /\ decision[i].triggered_by # <<>>
       /\ ~InBuckets(i)
       /\ Len(buckets[decision[i].section]) > 0

(* -------------------------------- C17 --------------------------------- *)

\* the places (section, index) at which story i sits
Places(i) ==
  {p \in UNION {{<<s, k>> : k \in 1..Len(buckets[s])} : s \in DOMAIN buckets} :
     buckets[p[1]][p[2]] = i}

\* C17: in every state a story sits at no more than one place of the
\* buckets, and the decision attached to a story never changes again.
C17_AtMostOnce ==
  /\ [](\A i \in Positions : Cardinality(Places(i)) <= 1)
  /\ [][\A i \in Positions : decision[i].decided => decision'[i] = decision[i]]_vars

C17_Witness ==
  /\ pc = "done"
  /\ \A i \in Positions : decision[i].decided /\ Cardinality(Places(i)) = 1
  /\ Len(stories) >= 2

(* -------------------------------- C19 --------------------------------- *)

\* C19: when _llm_classify returns, the collected results are those of the
\* batches that did not fail, in batch order; the verdict map has an entry
\* exactly for the fingerprints that the titles of the collected results
\* lead to, whatever batch a result came from; and each entry is the last
\* collected result for its fingerprint.
C19_LastWriterWins ==
  (client /\ pc = "llm_returned") =>
    /\ all_results = ResultsOfOthers(responses)
    /\ DOMAIN llm_results =
         {FpOf(i) : i \in {j \in Positions :
            /\ Echoed(j)
            /\ \A m \in Positions : stories[m].title = stories[j].title => m <= j}}
    /\ \A fp \in DOMAIN llm_results : llm_results[fp] = VerdictOf(LastResultFor(fp))

\* both batches answered with a verdict for the second story, the two
\* verdicts differ, and the map holds the second one
C19_Witness ==
  /\ client
  /\ pc = "llm_returned"
  /\ Len(stories) = 2
  /\ Len(batches) = 2
  /\ stories[1].title # stories[2].title
  /\ Len(all_results) = 2
  /\ all_results[1].title = stories[2].title
  /\ all_results[2].title = stories[2].title
  /\ VerdictOf(all_results[1]) # VerdictOf(all_results[2])
  /\ DOMAIN llm_results = {FpOf(2)}
  /\ llm_results[FpOf(2)] = VerdictOf(all_results[2])

(* -------------------------------- C18 --------------------------------- *)

RECURSIVE Flatten(_)
Flatten(seqs) ==
  IF seqs = <<>> THEN <<>>
  ELSE Flatten(SubSeq(seqs, 1, Len(seqs) - 1)) \o seqs[Len(seqs)]

\* C18: during the batch loop and when _llm_classify returns, the batches
\* are non-empty, hold at most the batch size and concatenate to the input
\* list; the batches sent so far are the first ones, in order; and every
\* call made has returned or raised before the next batch is sent.
C18_Batching ==
  (client /\ pc \in {"batch", "llm_returned"}) =>
    /\ Flatten(batches) = stories
    /\ \A b \in 1..Len(batches) :
         Len(batches[b]) >= 1 /\ Len(batches[b]) <= LLM_BATCH_SIZE
    /\ sent = SubSeq(batches, 1, batch_idx)
    /\ Len(responses) = Len(sent)
    /\ pc = "llm_returned" => sent = batches

\* two batches were sent, the first of which failed
C18_Witness ==
  /\ client
  /\ pc = "llm_returned"
  /\ Len(sent) = 2
  /\ Failed(responses[1])
  /\ sent[1] \o sent[2] = stories

(* ------------------------------- C13 --------------------------------- *)

\* the feeds from which an entry with story i's fingerprint was counted
CarriersOf(i) ==
  IF FpOf(i) \in DOMAIN carriers THEN carriers[FpOf(i)] ELSE {}

\* C13: every story fetch_all returns has a feed_count equal to the number
\* of distinct feeds that carried an entry with its fingerprint, at least
\* 1. Fails: a second entry with the fingerprint in the same feed is
\* counted again.
C13_FeedCountIsDistinctFeeds ==
  tpc = "fetched" =>
    \A i \in Positions :
      /\ stories[i].feed_count = Cardinality(CarriersOf(i))
      /\ stories[i].feed_count >= 1

(* ------------------------------- C14 --------------------------------- *)

\* C14: while fetch_all runs and in the list it returns, no two stories
\* have the same fingerprint, and every story's fingerprint is in seen.
C14_UniqueFingerprints ==
  tpc \in {"fetch_all", "fetched"} =>
    /\ \A i \in Positions : \A j \in Positions : FpOf(i) = FpOf(j) => i = j
    /\ \A i \in Positions : FpOf(i) \in seen
    /\ \A i \in Positions : FpOf(i) = FingerprintOf(stories[i].title)

\* fetch_all returned two stories from two feeds, and the first story's
\* title came again from the other feed, in other case and with blanks
C14_Witness ==
  /\ tpc = "fetched"
  /\ Len(stories) = 2
  /\ stories[1].title = <<"O", "k">>
  /\ stories[1].feed_count = 2
  /\ Cardinality(CarriersOf(1)) = 2
  /\ feeds = 2

(* ------------------------------- C20 --------------------------------- *)

PipelineOrder == <<"fetch_all", "classify", "build_digest", "send_email">>

NoneAdmitted == \A i \in Positions : ~InBuckets(i)

\* C20: the calls of one run of trigger() are a prefix of fetch_all,
\* classify, build_digest, send_email; classify is called only with a
\* non-empty list, and an empty list ends the run with 502; build_digest
\* and send_email are called only when some story sits in a bucket, and
\* empty buckets end the run with 204.
C20_PipelineOrder ==
  /\ [](/\ IsPrefix(calls, PipelineOrder)
        /\ Len(calls) >= 2 => stories # <<>>
        /\ Len(calls) >= 3 => (pc = "done" /\ ~NoneAdmitted)
        /\ tpc = "http_502" => (calls = SubSeq(PipelineOrder, 1, 1) /\ stories = <<>>)
        /\ tpc = "http_204" => (calls = SubSeq(PipelineOrder, 1, 2) /\ NoneAdmitted))
  /\ [][(tpc = "fetched" /\ stories = <<>>) => tpc' = "http_502"]_vars
  /\ [][(tpc = "classify" /\ pc = "done" /\ NoneAdmitted) => tpc' = "http_204"]_vars

\* a run that sent the email
C20_Witness ==
  /\ tpc = "returned"
  /\ calls = PipelineOrder
  /\ Len(stories) = 2
  /\ \E i \in Positions : ~InBuckets(i)

====
